---- MODULE Spec2Model ----
(***************************************************************************)
(* gpxshift: interactive time shifting of the timestamps of a GPX file.    *)
(*                                                                         *)
(* A document text is a sequence of one-character strings.  A timedelta is *)
(* an integer number of seconds.  A datetime is a record                   *)
(* [ord |-> proleptic Gregorian ordinal (0001-01-01 is 1), sec |-> second  *)
(* of the day]; an optional datetime is a sequence of length 0 or 1.       *)
(***************************************************************************)
EXTENDS Integers, Sequences, FiniteSets, TLC

\* ------------------------------------------------------------------ bounds

\* The session never shifts by more than MaxShift hours either way.
MaxShift == 2
\* A document holds at most MaxTimes items (points, comments).
MaxTimes == 2
\* The rewriter is applied with shifts of at most MaxDelta hours either way.
MaxDelta == 3

\* ------------------------------------------------------- program constants

SecondsPerHour == 3600
SecondsPerDay == 86400
\* datetime.max is 9999-12-31, ordinal 3652059; datetime.min has ordinal 1.
MaxOrdinal == 3652059
MinOrdinal == 1
MaxYear == 9999
\* Length of the text GPX_TIME_PATTERN matches: 6 + 20 + 7.
PatternLen == 33
TimestampLen == 20

\* -------------------------------------------------------------- characters

DigitChars == <<"0","1","2","3","4","5","6","7","8","9">>

IsDigit(c) == \E n \in 1..10 : DigitChars[n] = c

DigitVal(c) == (CHOOSE n \in 1..10 : DigitChars[n] = c) - 1

DigitChar(n) == DigitChars[n + 1]

Pad2(n) == <<DigitChar((n \div 10) % 10), DigitChar(n % 10)>>

Pad4(n) == Pad2((n \div 100) % 100) \o Pad2(n % 100)

\* The decimal digits of n >= 0 without padding ("%d").
RECURSIVE Unpadded(_)
Unpadded(n) == IF n < 10 THEN <<DigitChar(n)>>
               ELSE Unpadded(n \div 10) \o <<DigitChar(n % 10)>>

TimeOpen == <<"<","t","i","m","e",">">>
TimeClose == <<"<","/","t","i","m","e",">">>

\* text[i .. i+Len(lit)-1] = lit
StartsWithAt(text, i, lit) ==
    /\ i >= 1
    /\ i + Len(lit) - 1 <= Len(text)
    /\ text[i] = lit[1]
    /\ \A k \in 2..Len(lit) : text[i + k - 1] = lit[k]

\* ------------------------------------------------------------------ dates

IsLeap(y) == y % 4 = 0 /\ (y % 100 # 0 \/ y % 400 = 0)

DaysInMonthTable == <<31, 28, 31, 30, 31, 30, 31, 31, 30, 31, 30, 31>>

DaysBeforeMonthTable == <<0, 31, 59, 90, 120, 151, 181, 212, 243, 273, 304, 334>>

DaysInMonth(y, m) == IF m = 2 /\ IsLeap(y) THEN 29 ELSE DaysInMonthTable[m]

DaysBeforeMonth(y, m) ==
    DaysBeforeMonthTable[m] + (IF m > 2 /\ IsLeap(y) THEN 1 ELSE 0)

DaysBeforeYear(y) ==
    (y - 1) * 365 + ((y - 1) \div 4) - ((y - 1) \div 100) + ((y - 1) \div 400)

Ymd2Ord(y, m, d) == DaysBeforeYear(y) + DaysBeforeMonth(y, m) + d

\* The year, month and day of ordinal n (datetime's _ord2ymd).
Ord2Ymd(n) ==
    LET n0 == n - 1
        n400 == n0 \div 146097
        r400 == n0 % 146097
        n100 == r400 \div 36524
        r100 == r400 % 36524
        n4 == r100 \div 1461
        r4 == r100 % 1461
        n1 == r4 \div 365
        r1 == r4 % 365
        year == n400 * 400 + 1 + n100 * 100 + n4 * 4 + n1
    IN  IF n1 = 4 \/ n100 = 4
        THEN [y |-> year - 1, m |-> 12, d |-> 31]
        ELSE LET leap == n1 = 3 /\ (n4 # 24 \/ n100 = 3)
                 m0 == (r1 + 50) \div 32
                 p0 == DaysBeforeMonthTable[m0]
                         + (IF m0 > 2 /\ leap THEN 1 ELSE 0)
                 month == IF p0 > r1 THEN m0 - 1 ELSE m0
                 preceding == IF p0 > r1
                              THEN p0 - (DaysInMonthTable[month]
                                         + (IF month = 2 /\ leap THEN 1 ELSE 0))
                              ELSE p0
             IN  [y |-> year, m |-> month, d |-> r1 - preceding + 1]

\* ------------------------------------------------- the timestamp rewriter

\* The twenty characters \d{4}-\d{2}-\d{2}T\d{2}:\d{2}:\d{2}Z at text[i..].
IsTimestampShape(text, i) ==
    /\ i + TimestampLen - 1 <= Len(text)
    /\ \A k \in {0, 1, 2, 3, 5, 6, 8, 9, 11, 12, 14, 15, 17, 18} :
          IsDigit(text[i + k])
    /\ text[i + 4] = "-"
    /\ text[i + 7] = "-"
    /\ text[i + 10] = "T"
    /\ text[i + 13] = ":"
    /\ text[i + 16] = ":"
    /\ text[i + 19] = "Z"

\* GPX_TIME_PATTERN matches at text[i .. i+32].
PatternMatchesAt(text, i) ==
    /\ StartsWithAt(text, i, TimeOpen)
    /\ IsTimestampShape(text, i + Len(TimeOpen))
    /\ StartsWithAt(text, i + Len(TimeOpen) + TimestampLen, TimeClose)

Num2(ts, i) == DigitVal(ts[i]) * 10 + DigitVal(ts[i + 1])

Num4(ts, i) == Num2(ts, i) * 100 + Num2(ts, i + 2)

\* datetime.strptime(ts, "%Y-%m-%dT%H:%M:%SZ") of a string of the pattern's
\* shape: the fields are range-checked and the date must exist.
strptime(ts) ==
    LET y == Num4(ts, 1)
        m == Num2(ts, 6)
        d == Num2(ts, 9)
        hh == Num2(ts, 12)
        mi == Num2(ts, 15)
        ss == Num2(ts, 18)
        valid == /\ y >= 1 /\ y <= MaxYear
                 /\ m >= 1 /\ m <= 12
                 /\ d >= 1 /\ d <= DaysInMonth(y, m)
                 /\ hh <= 23 /\ mi <= 59 /\ ss <= 59
    IN  IF valid
        THEN [err |-> "", ord |-> Ymd2Ord(y, m, d),
              sec |-> hh * SecondsPerHour + mi * 60 + ss]
        ELSE [err |-> "ValueError", ord |-> 0, sec |-> 0]

\* datetime + timedelta: OverflowError outside datetime.min .. datetime.max.
AddDelta(t, delta) ==
    LET total == t.sec + delta
        ord == t.ord + (total \div SecondsPerDay)
    IN  IF ord < MinOrdinal \/ ord > MaxOrdinal
        THEN [err |-> "OverflowError", ord |-> 0, sec |-> 0]
        ELSE [err |-> "", ord |-> ord, sec |-> total % SecondsPerDay]

\* "%Y" of strftime: four digits where the C library pads the year, the bare
\* decimal number where it does not (glibc, for a year below 1000).
FormatYear(y, pads) == IF pads THEN Pad4(y) ELSE Unpadded(y)

\* t.strftime("%Y-%m-%dT%H:%M:%SZ")
strftime(t, pads) ==
    LET ymd == Ord2Ymd(t.ord)
    IN  FormatYear(ymd.y, pads) \o <<"-">> \o Pad2(ymd.m) \o <<"-">>
          \o Pad2(ymd.d) \o <<"T">> \o Pad2(t.sec \div SecondsPerHour)
          \o <<":">> \o Pad2((t.sec % SecondsPerHour) \div 60)
          \o <<":">> \o Pad2(t.sec % 60) \o <<"Z">>

\* replace_match, but a timestamp strptime rejects is left as it is.
replace_match_skipping(ts, shift_delta, pads) ==
    LET timestamp == strptime(ts)
        shifted == AddDelta(timestamp, shift_delta)
    IN  IF timestamp.err # ""
        THEN [err |-> "", text |-> TimeOpen \o ts \o TimeClose]
        ELSE IF shifted.err # "" THEN [err |-> shifted.err, text |-> <<>>]
        ELSE [err |-> "", text |-> TimeOpen \o strftime(shifted, pads) \o TimeClose]

\* _replace(match): the replacement of one match, or the error it raises.
replace_match(ts, shift_delta, pads) ==
    LET timestamp == strptime(ts)
        shifted == AddDelta(timestamp, shift_delta)
    IN  IF timestamp.err # "" THEN [err |-> timestamp.err, text |-> <<>>]
        ELSE IF shifted.err # "" THEN [err |-> shifted.err, text |-> <<>>]
        ELSE [err |-> "", text |-> TimeOpen \o strftime(shifted, pads) \o TimeClose]

\* The least position >= i where GPX_TIME_PATTERN matches, or Len(text) + 1.
NextMatch(text, i) ==
    LET hits == { j \in i..Len(text) : PatternMatchesAt(text, j) }
    IN  IF hits = {} THEN Len(text) + 1
        ELSE CHOOSE j \in hits : \A k \in hits : j <= k

\* GPX_TIME_PATTERN.sub(_replace, gpx_text) from position i on: the matches
\* are replaced left to right, the text between them is copied, and the
\* first error raised ends the call.
RECURSIVE PatternSub(_, _, _, _)
PatternSub(text, i, shift_delta, pads) ==
    LET j == NextMatch(text, i)
    IN  IF j > Len(text) THEN [err |-> "", text |-> SubSeq(text, i, Len(text))]
        ELSE LET r == replace_match(SubSeq(text, j + Len(TimeOpen),
                                           j + Len(TimeOpen) + TimestampLen - 1),
                                    shift_delta, pads)
             IN  IF r.err # "" THEN r
                 ELSE LET rest == PatternSub(text, j + PatternLen,
                                             shift_delta, pads)
                      IN  IF rest.err # "" THEN rest
                          ELSE [err |-> "",
                                text |-> SubSeq(text, i, j - 1) \o r.text
                                           \o rest.text]

\* shift_gpx_times, but a zero shift is rewritten like any other.
shift_gpx_times_always_sub(gpx_text, shift_delta, pads) ==
    PatternSub(gpx_text, 1, shift_delta, pads)

\* shift_gpx_times(gpx_text, shift_delta): [err, text], err = "" on return.
shift_gpx_times(gpx_text, shift_delta, pads) ==
    IF shift_delta = 0 THEN [err |-> "", text |-> gpx_text]
    ELSE PatternSub(gpx_text, 1, shift_delta, pads)

\* ------------------------------------------------------------------ paths
\* A file name is the sequence of its dot-separated pieces ("a.tar.gz" is
\* <<"a", "tar", "gz">>, "." is <<"", "">>, the empty name is <<"">>).  A path
\* string is [abs, comps]: whether it starts with "/", and its "/"-separated
\* names.  A Path is [abs, parts], the names that are neither empty nor ".".

EmptyName == <<"">>
DotName == <<"", "">>
TildeName == <<"~">>

HomeDir == << <<"home">>, <<"user">> >>
CwdDir == << <<"work">> >>

\* The directories that exist (absolute); a file can be written into these.
ExistingDirs ==
    { <<>>, CwdDir, HomeDir, << <<"data">> >>, << <<"abs">> >>,
      CwdDir \o << <<"sub">> >> }

\* os.path.expanduser
expanduser(s) ==
    IF ~s.abs /\ Len(s.comps) >= 1 /\ s.comps[1] = TildeName
    THEN [abs |-> TRUE, comps |-> HomeDir \o Tail(s.comps)]
    ELSE s

IsRealName(c) == c # DotName /\ c # EmptyName

\* pathlib.Path(s)
PathOf(s) == [abs |-> s.abs, parts |-> SelectSeq(s.comps, IsRealName)]

DotPath == [abs |-> FALSE, parts |-> <<>>]

PathName(p) == IF Len(p.parts) = 0 THEN EmptyName ELSE p.parts[Len(p.parts)]

PathParent(p) ==
    [abs |-> p.abs,
     parts |-> IF Len(p.parts) = 0 THEN <<>>
               ELSE SubSeq(p.parts, 1, Len(p.parts) - 1)]

\* p / name
JoinName(p, nm) ==
    IF nm = EmptyName THEN p ELSE [abs |-> p.abs, parts |-> Append(p.parts, nm)]

\* p / q
JoinPath(p, q) ==
    IF q.abs THEN q ELSE [abs |-> p.abs, parts |-> p.parts \o q.parts]

\* Path.suffix is not empty: the last dot is neither first nor last.
HasSuffix(nm) ==
    /\ Len(nm) >= 2
    /\ nm[Len(nm)] # ""
    /\ ~(Len(nm) = 2 /\ nm[1] = "")

\* Path.stem, as pieces.
StemOf(nm) == IF HasSuffix(nm) THEN SubSeq(nm, 1, Len(nm) - 1) ELSE nm

Abs(n) == IF n < 0 THEN -n ELSE n

\* os.getcwd()-relative resolution done by the operating system on open().
Resolved(p) == IF p.abs THEN p.parts ELSE CwdDir \o p.parts

\* Path.write_text succeeds: the target is not a directory and its directory
\* exists.
CanWrite(p) ==
    LET r == Resolved(p)
    IN  /\ Len(r) >= 1
        /\ r \notin ExistingDirs
        /\ SubSeq(r, 1, Len(r) - 1) \in ExistingDirs

\* -------------------------------------------------------------- documents

Stamp(y, m, d, hh, mi, ss) ==
    Pad4(y) \o <<"-">> \o Pad2(m) \o <<"-">> \o Pad2(d) \o <<"T">>
      \o Pad2(hh) \o <<":">> \o Pad2(mi) \o <<":">> \o Pad2(ss) \o <<"Z">>

Header == <<"<","g","p","x",">">>
Footer == <<"<","/","g","p","x",">">>
TrkptOpen == <<"<","t","r","k","p","t",">">>
TrkptClose == <<"<","/","t","r","k","p","t",">">>
WptOpen == <<"<","w","p","t",">">>
WptClose == <<"<","/","w","p","t",">">>
RteptOpen == <<"<","r","t","e","p","t",">">>
RteptClose == <<"<","/","r","t","e","p","t",">">>
CommentOpen == <<"<","!","-","-">>
CommentClose == <<"-","-",">">>
Fraction == <<".","0","0","0","Z">>

TimeElement(inner) == TimeOpen \o inner \o TimeClose

\* The items a document of the session is made of.
Items ==
    { TrkptOpen \o TimeElement(Stamp(2024, 12, 31, 23, 30, 0)) \o TrkptClose,
      WptOpen \o TimeElement(Stamp(1, 1, 1, 0, 30, 0)) \o WptClose,
      CommentOpen \o TimeElement(Stamp(2025, 13, 1, 0, 0, 0)) \o CommentClose }

\* The items a document whose preview is followed is made of: track
\* points without a time, with times in either order and with a time at
\* the end of datetime's range, a waypoint at its start, and a route point
\* earlier than the track points.
PreviewItems ==
    { TrkptOpen \o TrkptClose,
      TrkptOpen \o TimeElement(Stamp(2024, 12, 31, 23, 30, 0)) \o TrkptClose,
      TrkptOpen \o TimeElement(Stamp(2024, 6, 1, 12, 0, 0)) \o TrkptClose,
      TrkptOpen \o TimeElement(Stamp(9999, 12, 31, 22, 30, 0)) \o TrkptClose,
      WptOpen \o TimeElement(Stamp(1, 1, 1, 0, 30, 0)) \o WptClose,
      RteptOpen \o TimeElement(Stamp(2023, 1, 1, 0, 0, 0)) \o RteptClose }

\* The <time> elements the rewriter is applied to: dates at the end of a
\* day, a month and a year, in leap and common years, at both ends of the
\* range of datetime, values that are no date or no time, and a timestamp
\* with a fraction, which the pattern does not match.
RewriteItems ==
    { TimeElement(Stamp(2025, 1, 1, 0, 0, 0)),
      TimeElement(Stamp(2025, 1, 1, 12, 0, 0)),
      TimeElement(Stamp(2024, 2, 29, 23, 30, 0)),
      TimeElement(Stamp(2100, 2, 28, 23, 30, 0)),
      TimeElement(Stamp(999, 12, 31, 23, 30, 0)),
      TimeElement(Stamp(9999, 12, 31, 23, 0, 0)),
      TimeElement(Stamp(2025, 13, 1, 0, 0, 0)),
      TimeElement(Stamp(2025, 2, 29, 12, 0, 0)),
      TimeElement(Stamp(2025, 1, 1, 25, 0, 0)),
      TimeElement(SubSeq(Stamp(2025, 1, 1, 0, 0, 0), 1, 19) \o Fraction) }

RECURSIVE Flatten(_)
Flatten(seqs) == IF seqs = <<>> THEN <<>> ELSE Head(seqs) \o Flatten(Tail(seqs))

DocsOf(items, n) ==
    { Header \o Flatten(body) \o Footer :
        body \in UNION { [1..k -> items] : k \in 0..n } }

\* The documents of at most n of the items, each at most once, in any order.
DistinctDocsOf(items, n) ==
    { Header \o Flatten(body) \o Footer :
        body \in { b \in UNION { [1..k -> items] : k \in 0..n } :
                     \A i, j \in DOMAIN b : i # j => b[i] # b[j] } }

\* ------------------------------------------------- the structural parse
\* gpxpy's parse, reduced to what the session reads of it: the optional time
\* of every track point, waypoint and route point, in document order.

EmptyGpx == [tracks |-> <<>>, waypoints |-> <<>>, routes |-> <<>>]

\* The least j >= i where lit starts in text, or Len(text) + 1.
IndexFrom(text, i, lit) ==
    LET hits == { j \in i..Len(text) : StartsWithAt(text, j, lit) }
    IN  IF hits = {} THEN Len(text) + 1
        ELSE CHOOSE j \in hits : \A k \in hits : j <= k

\* The time of a <time> element's text: second precision with "Z", with or
\* without a fraction; a text that is no timestamp gives no time.
parse_time(inner) ==
    LET head == SubSeq(inner, 1, TimestampLen - 1) \o <<"Z">>
        shaped == /\ Len(inner) >= TimestampLen
                  /\ IsTimestampShape(head, 1)
                  /\ \/ Len(inner) = TimestampLen /\ inner[TimestampLen] = "Z"
                     \/ /\ Len(inner) > TimestampLen + 1
                        /\ inner[TimestampLen] = "."
                        /\ inner[Len(inner)] = "Z"
                        /\ \A k \in (TimestampLen + 1)..(Len(inner) - 1) :
                              IsDigit(inner[k])
        t == strptime(head)
    IN  IF shaped /\ t.err = "" THEN <<[ord |-> t.ord, sec |-> t.sec]>> ELSE <<>>

SetLastTime(points, t) ==
    IF points = <<>> THEN points ELSE [points EXCEPT ![Len(points)] = t]

ParseTags ==
    { CommentOpen, TrkptOpen, WptOpen, RteptOpen, TrkptClose, WptClose,
      RteptClose, TimeOpen }

\* The least position >= i where one of the tags the parse reads starts.
NextTag(text, i) ==
    LET hits == { j \in i..Len(text) :
                    \E tag \in ParseTags : StartsWithAt(text, j, tag) }
    IN  IF hits = {} THEN Len(text) + 1
        ELSE CHOOSE j \in hits : \A k \in hits : j <= k

RECURSIVE ParseFrom(_, _, _, _)
ParseFrom(text, i, kind, gpx) ==
    LET j == NextTag(text, i)
    IN  IF j > Len(text) THEN gpx
        ELSE IF StartsWithAt(text, j, CommentOpen)
        THEN ParseFrom(text,
                       IndexFrom(text, j, CommentClose) + Len(CommentClose),
                       kind, gpx)
        ELSE IF StartsWithAt(text, j, TrkptOpen)
        THEN ParseFrom(text, j + Len(TrkptOpen), "tracks",
                       [gpx EXCEPT !.tracks = Append(@, <<>>)])
        ELSE IF StartsWithAt(text, j, WptOpen)
        THEN ParseFrom(text, j + Len(WptOpen), "waypoints",
                       [gpx EXCEPT !.waypoints = Append(@, <<>>)])
        ELSE IF StartsWithAt(text, j, RteptOpen)
        THEN ParseFrom(text, j + Len(RteptOpen), "routes",
                       [gpx EXCEPT !.routes = Append(@, <<>>)])
        ELSE IF StartsWithAt(text, j, TimeOpen) /\ kind # ""
        THEN LET from == j + Len(TimeOpen)
                 to == IndexFrom(text, from, TimeClose)
                 t == parse_time(SubSeq(text, from, to - 1))
             IN  ParseFrom(text, to, kind,
                           [gpx EXCEPT ![kind] = SetLastTime(@, t)])
        ELSE IF StartsWithAt(text, j, TimeOpen)
        THEN ParseFrom(text, j + 1, kind, gpx)
        ELSE ParseFrom(text, j + 1, "", gpx)

\* GPXShiftApp._parse_gpx_text
parse_gpx_text(gpx_text) == ParseFrom(gpx_text, 1, "", EmptyGpx)

\* point.time + shift_delta if point.time else None, over a list of points.
ShiftPoints(points, shift_delta) ==
    [k \in 1..Len(points) |->
        IF points[k] = <<>> THEN <<>>
        ELSE LET r == AddDelta(points[k][1], shift_delta)
             IN  <<[ord |-> r.ord, sec |-> r.sec]>>]

PointsOverflow(points, shift_delta) ==
    \E k \in 1..Len(points) :
        points[k] # <<>> /\ AddDelta(points[k][1], shift_delta).err # ""

\* GPXShiftApp._apply_shift: [err, gpx]; a time out of datetime's range
\* raises OverflowError.
apply_shift(gpx_data, shift_delta) ==
    IF \/ PointsOverflow(gpx_data.tracks, shift_delta)
       \/ PointsOverflow(gpx_data.waypoints, shift_delta)
       \/ PointsOverflow(gpx_data.routes, shift_delta)
    THEN [err |-> "OverflowError", gpx |-> EmptyGpx]
    ELSE [err |-> "",
          gpx |-> [tracks |-> ShiftPoints(gpx_data.tracks, shift_delta),
                   waypoints |-> ShiftPoints(gpx_data.waypoints, shift_delta),
                   routes |-> ShiftPoints(gpx_data.routes, shift_delta)]]

\* ------------------------------------------------------------ the preview
\* What make_layout hands to the presentation layer: the bounds of the
\* original and of the current projection, in UTC or in the host's local
\* time, and the total shift.

\* The indexes of the points that carry a time.
TimedIndexes(points) == { k \in 1..Len(points) : points[k] # <<>> }

\* get_time_bounds, read as the least and the greatest time over the points
\* of the tracks, the waypoints and the routes.
get_time_bounds_min_max(gpx_data) ==
    LET all == gpx_data.tracks \o gpx_data.waypoints \o gpx_data.routes
        timed == TimedIndexes(all)
        Before(a, b) == a.ord < b.ord \/ (a.ord = b.ord /\ a.sec <= b.sec)
    IN  IF timed = {} THEN [start_time |-> <<>>, end_time |-> <<>>]
        ELSE [start_time |->
                all[CHOOSE k \in timed :
                      \A n \in timed : Before(all[k][1], all[n][1])],
              end_time |->
                all[CHOOSE k \in timed :
                      \A n \in timed : Before(all[n][1], all[k][1])]]

\* gpx_data.get_time_bounds() of gpxpy: the time of the first and of the
\* last track point that carries one; waypoints and routes are not read.
get_time_bounds(gpx_data) ==
    LET points == gpx_data.tracks
        timed == TimedIndexes(points)
    IN  IF timed = {} THEN [start_time |-> <<>>, end_time |-> <<>>]
        ELSE [start_time |->
                points[CHOOSE k \in timed : \A n \in timed : k <= n],
              end_time |->
                points[CHOOSE k \in timed : \A n \in timed : k >= n]]

\* GPXShiftApp.get_start_end_times: the bounds are a tuple of two fields,
\* which is never falsy.
get_start_end_times(gpx_data) ==
    LET time_bounds == get_time_bounds(gpx_data)
    IN  <<time_bounds.start_time, time_bounds.end_time>>

\* utc_to_local, but a missing time is converted like any other.
utc_to_local_unguarded(utc_dt, offset) ==
    IF utc_dt = <<>> THEN [err |-> "AttributeError", time |-> <<>>]
    ELSE LET r == AddDelta(utc_dt[1], offset)
         IN  IF r.err # "" THEN [err |-> r.err, time |-> <<>>]
             ELSE [err |-> "", time |-> <<[ord |-> r.ord, sec |-> r.sec]>>]

\* utc_to_local on a host whose local time is offset seconds east of UTC:
\* [err, time]; a local time out of datetime's range raises OverflowError.
utc_to_local(utc_dt, offset) ==
    IF utc_dt = <<>> THEN [err |-> "", time |-> <<>>]
    ELSE LET r == AddDelta(utc_dt[1], offset)
         IN  IF r.err # "" THEN [err |-> r.err, time |-> <<>>]
             ELSE [err |-> "", time |-> <<[ord |-> r.ord, sec |-> r.sec]>>]

NotAvailable == <<"N", "/", "A">>

\* x.strftime('%Y-%m-%d %H:%M:%S') if x else 'N/A'
display_time(x, pads) ==
    IF x = <<>> THEN NotAvailable
    ELSE LET t == x[1]
             ymd == Ord2Ymd(t.ord)
         IN  FormatYear(ymd.y, pads) \o <<"-">> \o Pad2(ymd.m) \o <<"-">>
               \o Pad2(ymd.d) \o <<" ">> \o Pad2(t.sec \div SecondsPerHour)
               \o <<":">> \o Pad2((t.sec % SecondsPerHour) \div 60)
               \o <<":">> \o Pad2(t.sec % 60)

\* "{n:02}": at least two digits.
AtLeast2(n) == IF n < 10 THEN Pad2(n) ELSE Unpadded(n)

\* format_timedelta
format_timedelta(td) ==
    LET total_seconds == IF td < 0 THEN -td ELSE td
        hours == total_seconds \div SecondsPerHour
        remainder == total_seconds % SecondsPerHour
    IN  <<IF td < 0 THEN "-" ELSE "+">> \o AtLeast2(hours) \o <<":">>
          \o AtLeast2(remainder \div 60) \o <<":">> \o AtLeast2(remainder % 60)

NoLayout ==
    [err |-> "", label |-> "", original_start |-> <<>>, original_end |-> <<>>,
     current_start |-> <<>>, current_end |-> <<>>, total |-> <<>>]

\* make_layout for a session with these fields, on a host offset seconds
\* east of UTC: the snapshot shown, or the error raised while building it.
layout_of(original, current, utc, shift, offset, pads) ==
    LET o == get_start_end_times(original)
        c == get_start_end_times(current)
        shown == [k \in 1..4 |->
                    LET x == IF k <= 2 THEN o[k] ELSE c[k - 2]
                    IN  IF utc THEN [err |-> "", time |-> x]
                        ELSE utc_to_local(x, offset)]
        failed == { k \in 1..4 : shown[k].err # "" }
    IN  IF failed # {}
        THEN [NoLayout EXCEPT
                !.err = shown[CHOOSE k \in failed : \A n \in failed : k <= n].err]
        ELSE [err |-> "",
              label |-> IF utc THEN " (UTC)" ELSE " (Local)",
              original_start |-> display_time(shown[1].time, pads),
              original_end |-> display_time(shown[2].time, pads),
              current_start |-> display_time(shown[3].time, pads),
              current_end |-> display_time(shown[4].time, pads),
              total |-> format_timedelta(shift)]

\* ---------------------------------------------------------------- state

VARIABLES
    pads_year,          \* the host's strftime pads "%Y" to four digits
    gpx_file_path,      \* the path string the session was started with
    original_gpx_text,  \* GPXShiftApp.original_gpx_text
    original_gpx,       \* GPXShiftApp.original_gpx
    current_gpx,        \* GPXShiftApp.current_gpx
    time_shift,         \* GPXShiftApp.time_shift, in seconds
    display_utc,        \* GPXShiftApp.display_utc
    pc,                 \* "loop": waiting for a key; "done": quit;
                        \* "crashed": an exception left the loop;
                        \* "call": driven by direct method calls
    outcome,            \* what the last handler or call did outside the
                        \* session: a file write, an error, nothing
    loaded_text,        \* history: the text read from the file at load
    net_hours,          \* history: the sum of the hours of all adjusts
    recent,             \* history: the last adjust made by a direct
                        \* call, <<[h, before]>>: its hours and the
                        \* time_shift before it
    pair,               \* history: <<before>> when the last two adjusts
                        \* were adjust(h) and adjust(-h): the time_shift
                        \* before them
    utc_offset,         \* the host's local time, in seconds east of UTC
    key,                \* the key the loop read last, "" before the first
    toggles,            \* history: the number of "t" keys read, modulo 2
    untoggled,          \* history: the session as it was before each of
                        \* the "t" keys the last keys read were, the last
                        \* one first, two at most; <<>> after another key
    screen              \* the layout last handed to the presentation
                        \* layer

vars == <<pads_year, gpx_file_path, original_gpx_text, original_gpx,
          current_gpx, time_shift, display_utc, pc, outcome, loaded_text,
          net_hours, recent, pair, utc_offset, key, toggles, untoggled,
          screen>>

session == <<original_gpx_text, original_gpx, current_gpx, time_shift,
             display_utc>>

environment == <<pads_year, gpx_file_path, loaded_text, utc_offset>>

history == <<net_hours, recent, pair>>

terminal == <<key, toggles, untoggled, screen>>

NoPathString == [abs |-> FALSE, comps |-> <<>>]

Str(abs, comps) == [abs |-> abs, comps |-> comps]

\* The path strings a session is started with.
SourcePaths ==
    { Str(TRUE, << <<"data">>, <<"morning_run", "gpx">> >>),
      Str(FALSE, << <<"evening_run">> >>) }

\* The non-empty file names typed at the save prompt.
TypedNames ==
    { Str(FALSE, << <<"out", "gpx">> >>),
      Str(FALSE, << DotName, <<"out", "gpx">> >>),
      Str(TRUE, << <<"abs">>, <<"out", "gpx">> >>),
      Str(FALSE, << <<"sub">>, <<"out", "gpx">> >>),
      Str(FALSE, << TildeName, <<"out", "gpx">> >>),
      Str(FALSE, << <<"nodir">>, <<"out", "gpx">> >>) }

\* An outcome: kind is "none", "write" (text written to path), "error" (a
\* save raised err), "cancel", "crash" (an error left the loop), "raise" (a
\* direct call raised err) or "rewrite" (a rewrite returned text or raised
\* err); arg is the path string a save was given.
NoOutcome ==
    [kind |-> "none", err |-> "", arg |-> NoPathString, path |-> DotPath,
     text |-> <<>>]

Wrote(arg, path, text) ==
    [kind |-> "write", err |-> "", arg |-> arg, path |-> path, text |-> text]

Raised(kind, err, arg) ==
    [kind |-> kind, err |-> err, arg |-> arg, path |-> DotPath, text |-> <<>>]

\* ------------------------------------------------------------ GPXShiftApp

original_gpx_path == PathOf(gpx_file_path)

\* timedelta_hours, but the number is taken as minutes.
timedelta_minutes(hours) == hours * 60

\* datetime.timedelta(hours=hours)
timedelta_hours(hours) == hours * SecondsPerHour

\* GPXShiftApp.get_shift_hours
get_shift_hours == time_shift \div SecondsPerHour

\* shift_suffix, but a zero shift takes the sign of a negative one.
shift_suffix_strict(hours) ==
    "_" \o (IF hours > 0 THEN "p" ELSE "m") \o ToString(Abs(hours))

\* shift_suffix, but a zero shift adds nothing to the name.
shift_suffix_nonzero(hours) ==
    IF hours = 0 THEN ""
    ELSE "_" \o (IF hours >= 0 THEN "p" ELSE "m") \o ToString(Abs(hours))

\* f"_{sign}{abs(hours)}"
shift_suffix(hours) ==
    "_" \o (IF hours >= 0 THEN "p" ELSE "m") \o ToString(Abs(hours))

\* f"{stem}{suffix}{extension}", as the pieces of the new name.
default_name(nm, hours) ==
    LET stem == StemOf(nm)
        tagged == [stem EXCEPT ![Len(stem)] = @ \o shift_suffix(hours)]
    IN  IF HasSuffix(nm) THEN Append(tagged, nm[Len(nm)]) ELSE tagged

\* GPXShiftApp.get_default_output_path
get_default_output_path ==
    JoinName(PathParent(original_gpx_path),
             default_name(PathName(original_gpx_path), get_shift_hours))

\* output_path_for, but a bare name is resolved like any relative path.
output_path_for_cwd(output_file_path) ==
    IF output_file_path # NoPathString
    THEN LET candidate_path == PathOf(expanduser(output_file_path))
         IN  IF candidate_path.abs THEN candidate_path
             ELSE JoinPath([abs |-> TRUE, parts |-> CwdDir], candidate_path)
    ELSE get_default_output_path

\* The destination save_gpx resolves for output_file_path ("" or None: the
\* default).
output_path_for(output_file_path) ==
    IF output_file_path # NoPathString
    THEN LET candidate_path == PathOf(expanduser(output_file_path))
         IN  IF candidate_path.abs THEN candidate_path
             ELSE IF PathParent(candidate_path) = DotPath
             THEN JoinName(PathParent(original_gpx_path),
                           PathName(candidate_path))
             ELSE JoinPath([abs |-> TRUE, parts |-> CwdDir], candidate_path)
    ELSE get_default_output_path

\* gpxpy's serialisation of a structural document, one element per point.
PointXml(open, close, point) ==
    open \o (IF point = <<>> THEN <<>>
             ELSE TimeElement(strftime(point[1], TRUE))) \o close

to_xml(gpx) ==
    Header
      \o Flatten([k \in 1..Len(gpx.waypoints) |->
                    PointXml(WptOpen, WptClose, gpx.waypoints[k])])
      \o Flatten([k \in 1..Len(gpx.routes) |->
                    PointXml(RteptOpen, RteptClose, gpx.routes[k])])
      \o Flatten([k \in 1..Len(gpx.tracks) |->
                    PointXml(TrkptOpen, TrkptClose, gpx.tracks[k])])
      \o Footer

\* shifted_text, but taken from the live structural projection.
shifted_text_of_projection == [err |-> "", text |-> to_xml(current_gpx)]

\* The text save_gpx writes: [err, text].
shifted_text == shift_gpx_times(original_gpx_text, time_shift, pads_year)

\* save_result, but the destination is opened for writing before the text
\* is rewritten: an error of the rewrite leaves the file at path empty.
save_result_open_first(output_file_path, shifted) ==
    LET output_path == output_path_for(output_file_path)
    IN  IF ~CanWrite(output_path)
        THEN Raised("error", "OSError", output_file_path)
        ELSE IF shifted.err # ""
        THEN [Raised("error", shifted.err, output_file_path)
                EXCEPT !.path = output_path]
        ELSE Wrote(output_file_path, output_path, shifted.text)

\* GPXShiftApp.save_gpx once the text is rewritten: the error the rewrite
\* raised, or the write of the text, or the error the write raised.
save_result(output_file_path, shifted) ==
    LET output_path == output_path_for(output_file_path)
    IN  IF shifted.err # "" THEN Raised("error", shifted.err, output_file_path)
        ELSE IF ~CanWrite(output_path)
        THEN Raised("error", "OSError", output_file_path)
        ELSE Wrote(output_file_path, output_path, shifted.text)

\* GPXShiftApp.save_gpx: what the call does, a write or the error raised.
save_gpx(output_file_path) == save_result(output_file_path, shifted_text)

\* shifted_by, but the shift is assigned, not accumulated.
shifted_by_assign(hours) == timedelta_hours(hours)

\* shifted_by, but the hours are taken without their sign.
shifted_by_abs(hours) == time_shift + timedelta_hours(Abs(hours))

\* The time_shift after GPXShiftApp.shift_time(hours).
shifted_by(hours) == time_shift + timedelta_hours(hours)

InShiftRange(delta) ==
    /\ delta >= -(MaxShift * SecondsPerHour)
    /\ delta <= MaxShift * SecondsPerHour

\* ------------------------------------------------------------------- Init

\* make_layout(app)
make_layout ==
    layout_of(original_gpx, current_gpx, display_utc, time_shift, utc_offset,
              pads_year)

\* The local times of the hosts: west and east of UTC.
UtcOffsets == { -5 * SecondsPerHour, SecondsPerHour }

\* GPXShiftApp.__init__ on one of the documents, read from a file of the
\* host.
LoadedFrom(documents) ==
    /\ pads_year \in BOOLEAN
    /\ gpx_file_path \in SourcePaths
    /\ original_gpx_text \in documents
    /\ loaded_text = original_gpx_text
    /\ original_gpx = parse_gpx_text(original_gpx_text)
    /\ current_gpx = parse_gpx_text(original_gpx_text)
    /\ time_shift = timedelta_hours(0)
    /\ display_utc = FALSE
    /\ outcome = NoOutcome
    /\ net_hours = 0
    /\ recent = <<>>
    /\ pair = <<>>
    /\ key = ""
    /\ toggles = 0
    /\ untoggled = <<>>

Loaded == LoadedFrom(DistinctDocsOf(Items, MaxTimes))

\* main, up to its first wait for a key: the first layout is shown, and an
\* error raised while building it ends the program.
Started ==
    /\ utc_offset \in UtcOffsets
    /\ LET layout == make_layout
       IN  IF layout.err = ""
           THEN screen = layout /\ pc = "loop"
           ELSE screen = NoLayout /\ pc = "crashed"

Init == Loaded /\ Started

\* live.update(make_layout(app)) for the session as the handler leaves it:
\* the layout is shown and the handler ends with the outcome quiet, or the
\* error raised while building it leaves the loop.
Rerender(current, utc, shift, quiet) ==
    LET layout == layout_of(original_gpx, current, utc, shift, utc_offset,
                            pads_year)
    IN  IF layout.err = ""
        THEN screen' = layout /\ pc' = pc /\ outcome' = quiet
        ELSE /\ screen' = screen
             /\ pc' = "crashed"
             /\ outcome' = Raised("crash", layout.err, NoPathString)

\* ---------------------------------------------------------- the key loop

\* app.shift_time(hours) and the re-render, in the loop of main: an error
\* raised by _apply_shift leaves the loop after time_shift was updated.
KeyShift(keys, hours) ==
    /\ pc = "loop"
    /\ InShiftRange(shifted_by(hours))
    /\ key' \in keys
    /\ time_shift' = shifted_by(hours)
    /\ LET r == apply_shift(original_gpx, shifted_by(hours))
       IN  IF r.err = ""
           THEN /\ current_gpx' = r.gpx
                /\ Rerender(r.gpx, display_utc, shifted_by(hours), NoOutcome)
           ELSE /\ current_gpx' = current_gpx
                /\ screen' = screen
                /\ pc' = "crashed"
                /\ outcome' = Raised("crash", r.err, NoPathString)
    /\ net_hours' = net_hours + (IF key' \in {"+", "="} THEN 1 ELSE -1)
    /\ untoggled' = <<>>
    /\ UNCHANGED <<original_gpx_text, original_gpx, display_utc, environment,
                   recent, pair, toggles>>

\* KeyMinus, but the key is dispatched to the handler of "+".
KeyMinusForward == KeyShift({"-", "_"}, 1)

KeyPlus == KeyShift({"+", "="}, 1)

KeyMinus == KeyShift({"-", "_"}, -1)

\* KeyToggle, but the display is set to UTC.
KeyToggleSet ==
    /\ pc = "loop"
    /\ key' = "t"
    /\ toggles' = 1 - toggles
    /\ untoggled' = IF untoggled = <<>> THEN <<session>>
                    ELSE <<session, untoggled[1]>>
    /\ display_utc' = TRUE
    /\ Rerender(current_gpx, TRUE, time_shift, NoOutcome)
    /\ UNCHANGED <<original_gpx_text, original_gpx, current_gpx, time_shift,
                   environment, history>>

\* app.toggle_display_mode() and the re-render
KeyToggle ==
    /\ pc = "loop"
    /\ key' = "t"
    /\ toggles' = 1 - toggles
    /\ untoggled' = IF untoggled = <<>> THEN <<session>>
                    ELSE <<session, untoggled[1]>>
    /\ display_utc' = ~display_utc
    /\ Rerender(current_gpx, ~display_utc, time_shift, NoOutcome)
    /\ UNCHANGED <<original_gpx_text, original_gpx, current_gpx, time_shift,
                   environment, history>>

\* KeySave, but an error raised by save_gpx is not caught.
KeySaveUncaught ==
    /\ pc = "loop"
    /\ LET shifted == shifted_text
       IN  \E typed \in TypedNames
                     \cup {Str(FALSE, <<PathName(get_default_output_path)>>)} :
              /\ outcome' = save_result(typed, shifted)
              /\ pc' = IF outcome'.kind = "error" THEN "crashed" ELSE pc
    /\ key' = "s"
    /\ untoggled' = <<>>
    /\ screen' = make_layout
    /\ UNCHANGED <<session, environment, history, toggles>>

\* "s": the prompt is answered with a name (Enter gives the default name)
\* and the file is saved; an error is caught and reported; the layout of
\* the session, which the save left as it was, is shown again.
KeySave ==
    /\ pc = "loop"
    /\ key' = "s"
    /\ LET shifted == shifted_text
       IN  \E typed \in TypedNames
                     \cup {Str(FALSE, <<PathName(get_default_output_path)>>)} :
              outcome' = save_result(typed, shifted)
    /\ screen' = make_layout
    /\ untoggled' = <<>>
    /\ UNCHANGED <<session, pc, environment, history, toggles>>

\* "s", answered with blanks only: the save is cancelled.
KeySaveCancel ==
    /\ pc = "loop"
    /\ key' = "s"
    /\ outcome' = Raised("cancel", "", NoPathString)
    /\ screen' = make_layout
    /\ untoggled' = <<>>
    /\ UNCHANGED <<session, pc, environment, history, toggles>>

\* KeyQuit, but the session is saved to the default path on the way out.
KeyQuitSaving ==
    /\ pc = "loop"
    /\ key' = "q"
    /\ pc' = "done"
    /\ outcome' = save_gpx(NoPathString)
    /\ untoggled' = <<>>
    /\ UNCHANGED <<session, environment, history, toggles, screen>>

\* "q"
KeyQuit ==
    /\ pc = "loop"
    /\ key' = "q"
    /\ pc' = "done"
    /\ outcome' = NoOutcome
    /\ untoggled' = <<>>
    /\ UNCHANGED <<session, environment, history, toggles, screen>>

\* any other key
KeyOther ==
    /\ pc = "loop"
    /\ key' = "x"
    /\ outcome' = NoOutcome
    /\ untoggled' = <<>>
    /\ UNCHANGED <<session, pc, environment, history, toggles, screen>>

Next ==
    \/ KeyPlus
    \/ KeyMinus
    \/ KeyToggle
    \/ KeySave
    \/ KeySaveCancel
    \/ KeyQuit
    \/ KeyOther

Spec == Init /\ [][Next]_vars

\* ------------------------------------------------------------ the preview
\* The loop of main on documents with points of every kind, followed
\* through the keys that change what is shown.

InitPreview == LoadedFrom(DistinctDocsOf(PreviewItems, MaxTimes)) /\ Started

NextPreview ==
    \/ KeyPlus
    \/ KeyMinus
    \/ KeyToggle
    \/ KeyQuit
    \/ KeyOther

SpecPreview == InitPreview /\ [][NextPreview]_vars

\* ----------------------------------------------------------- direct calls
\* A caller holding a GPXShiftApp and calling its methods, as the tests do;
\* an error a call raises reaches the caller, who goes on.

InitCalls == Loaded /\ pc = "call" /\ utc_offset = 0 /\ screen = NoLayout

\* app.shift_time(hours)
CallShiftTime ==
    /\ pc = "call"
    /\ \E hours \in (-MaxShift..MaxShift) \ {0} :
          /\ InShiftRange(shifted_by(hours))
          /\ time_shift' = shifted_by(hours)
          /\ LET r == apply_shift(original_gpx, shifted_by(hours))
             IN  IF r.err = ""
                 THEN current_gpx' = r.gpx /\ outcome' = NoOutcome
                 ELSE /\ current_gpx' = current_gpx
                      /\ outcome' = Raised("raise", r.err, NoPathString)
          /\ net_hours' = net_hours + hours
          /\ recent' = <<[h |-> hours, before |-> time_shift]>>
          /\ pair' = IF recent # <<>> /\ recent[1].h = -hours
                     THEN <<recent[1].before>>
                     ELSE <<>>
    /\ UNCHANGED <<original_gpx_text, original_gpx, display_utc, pc,
                   environment, terminal>>

\* app.save_gpx(output_file_path), and app.save_gpx()
CallSave ==
    /\ pc = "call"
    /\ LET shifted == shifted_text
       IN  \E arg \in TypedNames \cup {NoPathString} :
              outcome' = save_result(arg, shifted)
    /\ UNCHANGED <<session, pc, environment, history, terminal>>

NextCalls == CallShiftTime \/ CallSave

SpecCalls == InitCalls /\ [][NextCalls]_vars

\* ------------------------------------------------------ the rewriter alone
\* shift_gpx_times applied once to a text and a shift.

InitRewrite ==
    /\ pads_year \in BOOLEAN
    /\ original_gpx_text \in DocsOf(RewriteItems, MaxTimes)
    /\ loaded_text = original_gpx_text
    /\ time_shift \in { timedelta_hours(h) : h \in -MaxDelta..MaxDelta }
    /\ gpx_file_path = Str(FALSE, << <<"evening_run">> >>)
    /\ original_gpx = EmptyGpx
    /\ current_gpx = EmptyGpx
    /\ display_utc = FALSE
    /\ pc = "rewrite"
    /\ outcome = NoOutcome
    /\ net_hours = 0
    /\ recent = <<>>
    /\ pair = <<>>
    /\ utc_offset = 0
    /\ key = ""
    /\ toggles = 0
    /\ untoggled = <<>>
    /\ screen = NoLayout

Rewrite ==
    /\ pc = "rewrite"
    /\ outcome.kind = "none"
    /\ LET r == shift_gpx_times(original_gpx_text, time_shift, pads_year)
       IN  outcome' = [kind |-> "rewrite", err |-> r.err, arg |-> NoPathString,
                       path |-> DotPath, text |-> r.text]
    /\ UNCHANGED <<session, pc, environment, history, terminal>>

NextRewrite == Rewrite

SpecRewrite == InitRewrite /\ [][NextRewrite]_vars

\* ------------------------------------------------------ the properties

\* A rewrite returned a text for a shift that is not zero.
Rewritten == outcome.kind = "rewrite" /\ outcome.err = "" /\ time_shift # 0

\* Position i of text lies in the timestamp of a match of the pattern.
InMatchedTimestamp(text, i) ==
    \E j \in 1..Len(text) :
        /\ PatternMatchesAt(text, j)
        /\ i >= j + Len(TimeOpen)
        /\ i < j + Len(TimeOpen) + TimestampLen

\* C1: format preservation. For a shift that is not zero the text the
\* rewriter returns has the length of the document and differs from it only
\* in digits of the timestamps the pattern matches.
C1_FormatPreserved ==
    Rewritten =>
        /\ Len(outcome.text) = Len(original_gpx_text)
        /\ \A i \in 1..Len(original_gpx_text) :
              outcome.text[i] # original_gpx_text[i] =>
                  /\ IsDigit(original_gpx_text[i])
                  /\ IsDigit(outcome.text[i])
                  /\ InMatchedTimestamp(original_gpx_text, i)
\* The calendar fields written in a timestamp of the pattern's shape.
FieldsOf(ts) ==
    [y |-> Num4(ts, 1), m |-> Num2(ts, 6), d |-> Num2(ts, 9),
     hh |-> Num2(ts, 12), mi |-> Num2(ts, 15), ss |-> Num2(ts, 18)]

\* One hour later, and one hour earlier, on the calendar.
NextHour(f) ==
    IF f.hh < 23 THEN [f EXCEPT !.hh = @ + 1]
    ELSE IF f.d < DaysInMonth(f.y, f.m) THEN [f EXCEPT !.hh = 0, !.d = @ + 1]
    ELSE IF f.m < 12 THEN [f EXCEPT !.hh = 0, !.d = 1, !.m = @ + 1]
    ELSE [f EXCEPT !.hh = 0, !.d = 1, !.m = 1, !.y = @ + 1]

PrevHour(f) ==
    IF f.hh > 0 THEN [f EXCEPT !.hh = @ - 1]
    ELSE IF f.d > 1 THEN [f EXCEPT !.hh = 23, !.d = @ - 1]
    ELSE IF f.m > 1
    THEN [f EXCEPT !.hh = 23, !.d = DaysInMonth(f.y, f.m - 1), !.m = @ - 1]
    ELSE [f EXCEPT !.hh = 23, !.d = 31, !.m = 12, !.y = @ - 1]

RECURSIVE StepHours(_, _)
StepHours(f, n) ==
    IF n = 0 THEN f
    ELSE IF n > 0 THEN StepHours(NextHour(f), n - 1)
    ELSE StepHours(PrevHour(f), n + 1)

\* The timestamp hours later than ts, zero-padded to the pattern's shape.
StampShifted(ts, hours) ==
    LET f == StepHours(FieldsOf(ts), hours)
    IN  Stamp(f.y, f.m, f.d, f.hh, f.mi, f.ss)

\* The start of the match of the pattern that covers position i, or 0.
MatchCovering(text, i) ==
    LET starts == { j \in 1..Len(text) :
                      /\ PatternMatchesAt(text, j)
                      /\ i >= j + Len(TimeOpen)
                      /\ i < j + Len(TimeOpen) + TimestampLen }
    IN  IF starts = {} THEN 0 ELSE CHOOSE j \in starts : TRUE

\* The document with every matched timestamp moved by hours on the
\* calendar, in the pattern's own format.
ExpectedRewrite(text, hours) ==
    [i \in 1..Len(text) |->
        LET j == MatchCovering(text, i)
        IN  IF j = 0 THEN text[i]
            ELSE StampShifted(SubSeq(text, j + Len(TimeOpen),
                                     j + Len(TimeOpen) + TimestampLen - 1),
                              hours)[i - j - Len(TimeOpen) + 1]]

\* C3: timestamp rewrite correctness. For a shift that is not zero every
\* match of the pattern is replaced by the instant shifted, written zero-
\* padded with second precision and "Z", across the ends of days, months and
\* years too; the rest of the text is kept.
C3_TimestampsShifted ==
    Rewritten =>
        outcome.text = ExpectedRewrite(original_gpx_text,
                                       time_shift \div SecondsPerHour)
\* A save was made: it wrote the file or raised an error.
SaveMade == outcome.kind \in {"write", "error"}

\* The text holds a match of the pattern.
HasMatch(text) == \E j \in 1..Len(text) : PatternMatchesAt(text, j)

\* The text holds a match of the pattern whose value strptime rejects.
HasMalformed(text) ==
    \E j \in 1..Len(text) :
        /\ PatternMatchesAt(text, j)
        /\ strptime(SubSeq(text, j + Len(TimeOpen),
                           j + Len(TimeOpen) + TimestampLen - 1)).err # ""

\* C2: zero-shift identity. The rewriter returns the document itself for a
\* zero shift, and a save made while the cumulative shift is zero writes the
\* text that was loaded (and never fails in the rewrite).
C2_ZeroShiftIdentity ==
    /\ shift_gpx_times(loaded_text, timedelta_hours(0), pads_year)
         = [err |-> "", text |-> loaded_text]
    /\ outcome.kind = "write" /\ time_shift = 0 => outcome.text = loaded_text
    /\ outcome.kind = "error" /\ time_shift = 0 => outcome.err = "OSError"

\* A document with a timestamp was saved after a pair of adjusts brought the
\* shift back to zero.
C2_Witness ==
    /\ outcome.kind = "write"
    /\ time_shift = 0
    /\ pair # <<>>
    /\ HasMatch(loaded_text)

\* C4: save always derives from the original raw text. The stored text is
\* the text that was loaded, and whatever a save writes is the rewrite of
\* the loaded text by the current cumulative shift.
C4_SaveFromOriginalText ==
    /\ original_gpx_text = loaded_text
    /\ outcome.kind = "write" =>
          LET r == shift_gpx_times(loaded_text, time_shift, pads_year)
          IN  r.err = "" /\ outcome.text = r.text

\* A save wrote a file after adjusts and a toggle, with a projection that
\* is no longer the original one.
C4_Witness ==
    /\ outcome.kind = "write"
    /\ time_shift # 0
    /\ display_utc
    /\ current_gpx # original_gpx
    /\ HasMatch(loaded_text)

\* The default output path of a session on the same source after a single
\* adjust(hours).
FreshDefaultPath(hours) ==
    JoinName(PathParent(PathOf(gpx_file_path)),
             default_name(PathName(PathOf(gpx_file_path)),
                          timedelta_hours(hours) \div SecondsPerHour))

\* The result of save_gpx(arg) on a session on the same source whose shift
\* is delta.
FreshSave(arg, delta) ==
    save_result(arg, shift_gpx_times(loaded_text, delta, pads_year))

\* C5: session shift additivity. After any adjusts the cumulative shift,
\* the default output path and the result of a save are those of a fresh
\* session with the single adjust of the sum of their hours.
C5_ShiftAdditivity ==
    /\ time_shift = timedelta_hours(0) + timedelta_hours(net_hours)
    /\ get_default_output_path = FreshDefaultPath(net_hours)
    /\ SaveMade => outcome = FreshSave(outcome.arg, timedelta_hours(net_hours))

\* A save wrote a file after at least two adjusts with a sum that is not
\* zero.
C5_Witness ==
    /\ outcome.kind = "write"
    /\ recent # <<>>
    /\ net_hours # recent[1].h
    /\ net_hours # 0
    /\ HasMatch(loaded_text)

\* C6: inverse cancellation. After adjust(h) and adjust(-h) the cumulative
\* shift is what it was before the two, and a save does what a save before
\* them did.
C6_InverseCancels ==
    pair # <<>> =>
        /\ time_shift = pair[1]
        /\ SaveMade => outcome = FreshSave(outcome.arg, pair[1])

\* A save wrote a file right after a cancelling pair made at a shift that
\* was not zero.
C6_Witness ==
    /\ pair # <<>>
    /\ pair[1] # 0
    /\ outcome.kind = "write"
    /\ HasMatch(loaded_text)

\* "_p{N}" or "_m{N}" for the current cumulative shift.
ShiftTag ==
    "_" \o (IF time_shift >= 0 THEN "p" ELSE "m")
        \o ToString(Abs(time_shift) \div SecondsPerHour)

\* C7: default output path naming. The default output path is, in the
\* directory of the source, {stem}_p{N}{extension} for a shift of N >= 0
\* hours and {stem}_m{N}{extension} for a shift of -N < 0 hours, for the
\* current cumulative shift.
C7_DefaultPathNaming ==
    /\ gpx_file_path = Str(TRUE, << <<"data">>, <<"morning_run", "gpx">> >>) =>
          get_default_output_path =
              [abs |-> TRUE,
               parts |-> << <<"data">>, <<"morning_run" \o ShiftTag, "gpx">> >>]
    /\ gpx_file_path = Str(FALSE, << <<"evening_run">> >>) =>
          get_default_output_path =
              [abs |-> FALSE, parts |-> << <<"evening_run" \o ShiftTag>> >>]

\* The default name was accepted at the prompt after adjusts to a negative
\* shift, and the file was written to the default output path.
C7_Witness ==
    /\ time_shift = timedelta_hours(-2)
    /\ outcome.kind = "write"
    /\ outcome.path = get_default_output_path
    /\ outcome.path.parts[Len(outcome.path.parts)] = <<"morning_run_m2", "gpx">>
\* The directory of the source file, and cwd, as paths.
SourceDir == PathParent(PathOf(gpx_file_path))

CwdPath == [abs |-> TRUE, parts |-> CwdDir]

\* The destination the priority order gives a save whose override reads as
\* the path p (the default output path when there is no override).
PriorityTarget(arg, p) ==
    IF arg = NoPathString THEN get_default_output_path
    ELSE IF p.abs THEN p
    ELSE IF Len(p.parts) <= 1
         THEN JoinName(SourceDir, IF p.parts = <<>> THEN EmptyName ELSE p.parts[1])
    ELSE JoinPath(CwdPath, p)

\* C8 as stated: the destination is chosen from the override as it was
\* given: absolute - verbatim; relative without a directory component - in
\* the directory of the source; relative with one - against the current
\* working directory; no override - the default output path. The path
\* written to is the path returned.
C8_SavePathPriority ==
    outcome.kind = "write" =>
        outcome.path = PriorityTarget(outcome.arg, PathOf(outcome.arg))

\* C8: the same priority order, applied to the override after a leading
\* "~" has been expanded to the home directory.
C8_SavePathPriorityExpanded ==
    outcome.kind = "write" =>
        outcome.path = PriorityTarget(outcome.arg, PathOf(expanduser(outcome.arg)))

\* A save to "~/out.gpx" wrote into the home directory.
C8_Witness ==
    /\ outcome.kind = "write"
    /\ outcome.arg = Str(FALSE, <<TildeName, <<"out", "gpx">> >>)
    /\ outcome.path = [abs |-> TRUE, parts |-> HomeDir \o << <<"out", "gpx">> >>]

\* C9 as stated: a save of a document with a matching but unparseable
\* timestamp fails with an error.
C9_MalformedFailsSave ==
    HasMalformed(loaded_text) /\ SaveMade => outcome.kind = "error"

\* C9: at a cumulative shift that is not zero, a save of a document with a
\* matching but unparseable timestamp fails in the rewrite, before anything
\* is written; at a zero shift what it writes is the loaded text.
C9_MalformedFailsShiftedSave ==
    HasMalformed(loaded_text) /\ SaveMade =>
        /\ time_shift # 0 =>
              outcome.kind = "error" /\ outcome.err \in {"ValueError", "OverflowError"}
        /\ outcome.kind = "write" => time_shift = 0 /\ outcome.text = loaded_text

\* A save at a shift that is not zero failed on a document that holds an
\* unparseable timestamp next to a valid one.
C9_Witness ==
    /\ HasMalformed(loaded_text)
    /\ \E j \in 1..Len(loaded_text) :
          /\ PatternMatchesAt(loaded_text, j)
          /\ strptime(SubSeq(loaded_text, j + Len(TimeOpen),
                             j + Len(TimeOpen) + TimestampLen - 1)).err = ""
    /\ time_shift # 0
    /\ outcome.kind = "error"
    /\ outcome.err = "ValueError"

\* After a save that failed, the prompt can be answered with another name
\* that is written with the rewrite of the loaded text.
CanSaveElsewhere ==
    \E typed \in TypedNames :
        /\ typed # outcome.arg
        /\ save_gpx(typed).kind = "write"
        /\ save_gpx(typed).text
             = shift_gpx_times(loaded_text, time_shift, pads_year).text

\* C10: failed save leaves session state unchanged. A save that fails
\* changes neither the stored text, nor the projections, nor the cumulative
\* shift, nor the display mode, and the key loop goes on; after a failed
\* write another path can be saved to with the same text.
C10_FailedSaveKeepsSession ==
    /\ [][pc = "loop" /\ outcome'.kind = "error" =>
              session' = session /\ pc' = "loop"]_vars
    /\ [](outcome.kind = "error" /\ outcome.err = "OSError" =>
              pc = "loop" /\ CanSaveElsewhere)

\* A write to a directory that does not exist failed at a shift that is
\* not zero, and the loop is still running.
C10_Witness ==
    /\ outcome.kind = "error"
    /\ outcome.err = "OSError"
    /\ time_shift # 0
    /\ pc = "loop"
\* C11: among the session transitions only save can fail. No handler of
\* "+", "=", "-", "_" or "t" - the adjust or the toggle and the re-render
\* that follows - ends with an error that leaves the loop.
C11_OnlySaveFails == outcome.kind # "crash"
\* C12: hour-multiple invariant. The cumulative shift starts at zero, is a
\* whole number of hours in every state, and changes only in the handler of
\* an adjust key.
C12_HourMultiple ==
    /\ time_shift = 0
    /\ [](time_shift % SecondsPerHour = 0)
    /\ [][time_shift' # time_shift => key' \in {"+", "=", "-", "_"}]_vars

\* The shift is not zero after an adjust, and a key that is no adjust was
\* read since.
C12_Witness ==
    /\ time_shift # 0
    /\ key \in {"t", "s", "x"}
    /\ pc = "loop"
\* C13: toggleDisplayMode flips displayInUTC and leaves everything else
\* unchanged. The handler of "t" negates display_utc and changes neither the
\* cumulative shift, nor the stored text, nor the projections, nor the
\* default output path, nor what the text a save would write is computed
\* from (the stored text, the shift and the host); a second "t" right after
\* it gives back the session as it was before the first.
C13_ToggleFrame ==
    /\ [][key' = "t" =>
          /\ display_utc' = ~display_utc
          /\ time_shift' = time_shift
          /\ original_gpx_text' = original_gpx_text
          /\ original_gpx' = original_gpx
          /\ current_gpx' = current_gpx
          /\ output_path_for(NoPathString)' = output_path_for(NoPathString)
          /\ <<pads_year, gpx_file_path>>' = <<pads_year, gpx_file_path>>]_vars
    /\ [](Len(untoggled) = 2 => session = untoggled[2])

\* Two "t" keys in a row were read at a shift that is not zero, in UTC
\* display before them.
C13_Witness ==
    /\ key = "t"
    /\ Len(untoggled) = 2
    /\ untoggled[2][5]
    /\ ~untoggled[1][5]
    /\ time_shift # 0
    /\ pc = "loop"
\* C14: key dispatch. After any keys the cumulative shift is the number of
\* "+" and "=" keys less the number of "-" and "_" keys, in hours, and
\* display_utc is the parity of the number of "t" keys; "s", "q" and any
\* other key change neither; and whenever the loop waits for a key, the
\* layout shown is the layout of the session as it is.
C14_KeyDispatch ==
    /\ [](/\ time_shift = net_hours * SecondsPerHour
          /\ display_utc = (toggles = 1)
          /\ pc = "loop" => screen = make_layout)
    /\ [][key' \in {"s", "q", "x"} =>
              time_shift' = time_shift /\ display_utc' = display_utc]_vars

\* "=" was read after more "-" and "_" keys than "+" and "=" keys and an
\* odd number of "t" keys.
C14_Witness ==
    /\ key = "="
    /\ net_hours = -1
    /\ time_shift = -SecondsPerHour
    /\ toggles = 1
    /\ display_utc
    /\ pc = "loop"
\* C15: BoundsReader aggregation. The bounds used for the preview, of the
\* original and of the current projection, are the least and the greatest
\* time over all points of the tracks, all waypoints and all route points,
\* points without a time left aside.
C15_BoundsMinMax ==
    \A gpx_data \in {original_gpx, current_gpx} :
        LET bounds == get_time_bounds_min_max(gpx_data)
        IN  get_start_end_times(gpx_data)
              = <<bounds.start_time, bounds.end_time>>
\* No point of the document carries a time.
NoTimedPoint(gpx_data) ==
    TimedIndexes(gpx_data.tracks \o gpx_data.waypoints \o gpx_data.routes) = {}

\* C16: empty-bounds handling. For a document without a timed point the
\* bounds of the original and of the current projection are (absent,
\* absent) after any adjusts, no handler fails, and the layout shown has
\* "N/A" for each of the four times.
C16_EmptyBounds ==
    NoTimedPoint(original_gpx) =>
        /\ get_start_end_times(original_gpx) = << <<>>, <<>> >>
        /\ get_start_end_times(current_gpx) = << <<>>, <<>> >>
        /\ pc # "crashed"
        /\ screen.err = ""
        /\ screen.original_start = NotAvailable
        /\ screen.original_end = NotAvailable
        /\ screen.current_start = NotAvailable
        /\ screen.current_end = NotAvailable

\* A document with a track point, none with a time, is shown in local time
\* after adjusts to a shift that is not zero.
C16_Witness ==
    /\ NoTimedPoint(original_gpx)
    /\ original_gpx.tracks # <<>>
    /\ time_shift # 0
    /\ key \in {"+", "=", "-", "_"}
    /\ ~display_utc
    /\ screen.total = format_timedelta(time_shift)
    /\ pc = "loop"
\* The time t and seconds later, by the calendar.
SecondsLater(t, seconds) ==
    [ord |-> t.ord + ((t.sec + seconds) \div SecondsPerDay),
     sec |-> (t.sec + seconds) % SecondsPerDay]

\* C17: preview projection consistency. The original projection is the parse
\* of the text that was loaded, and the current projection has the same
\* points, each timed point at its original time plus the cumulative shift
\* and each point without a time still without one.
C17_ProjectionConsistent ==
    /\ original_gpx = parse_gpx_text(loaded_text)
    /\ \A kind \in {"tracks", "waypoints", "routes"} :
          /\ Len(current_gpx[kind]) = Len(original_gpx[kind])
          /\ \A k \in 1..Len(original_gpx[kind]) :
                current_gpx[kind][k] =
                    IF original_gpx[kind][k] = <<>> THEN <<>>
                    ELSE <<SecondsLater(original_gpx[kind][k][1], time_shift)>>
\* C18: no write outside a confirmed save. A step that writes a file, or
\* fails in a save, is the handler of "s" with a name that is not empty;
\* the adjust keys, "t", "q", any other key and a cancelled "s" write
\* nothing; "q" can be read whenever the loop waits, ends the loop and
\* leaves the session as it is, and nothing happens after it.
C18_WritesOnlyOnSave ==
    /\ [][outcome'.kind \in {"write", "error"} =>
              key' = "s" /\ outcome'.arg # NoPathString]_vars
    /\ [][key' # "s" \/ outcome'.kind = "cancel" =>
              outcome'.text = <<>> /\ outcome'.path = DotPath]_vars
    /\ [][key' = "q" => pc' = "done" /\ session' = session]_vars
    /\ [][pc # "done"]_vars
    /\ [](pc = "loop" => ENABLED KeyQuit)

\* "q" was read after adjusts and a toggle, and the last thing the loop did
\* outside the session was nothing.
C18_Witness ==
    /\ pc = "done"
    /\ key = "q"
    /\ time_shift # 0
    /\ display_utc
    /\ outcome = NoOutcome
\* C19: a save with no override never overwrites the source file. In every
\* state the default output path is not the file the session was loaded
\* from, at a zero shift too, and a save without an override does not write
\* to that file.
C19_DefaultNotSource ==
    /\ Resolved(get_default_output_path) # Resolved(PathOf(gpx_file_path))
    /\ outcome.kind = "write" /\ outcome.arg = NoPathString =>
          Resolved(outcome.path) # Resolved(PathOf(gpx_file_path))

\* A save without an override wrote a file at a shift that adjusts brought
\* back to zero.
C19_Witness ==
    /\ outcome.kind = "write"
    /\ outcome.arg = NoPathString
    /\ time_shift = 0
    /\ recent # <<>>
    /\ PathName(outcome.path) \in {<<"morning_run_p0", "gpx">>, <<"evening_run_p0">>}
\* C20: the rewrite is all-or-nothing for the destination file. A save
\* whose rewrite raises (a malformed or an out-of-range timestamp) fails
\* with that error and touches no file, whatever the destination; a save
\* that writes, writes the text of a rewrite that raised nothing.
C20_RewriteBeforeWrite ==
    LET rewrite == shift_gpx_times(loaded_text, time_shift, pads_year)
    IN  /\ SaveMade /\ rewrite.err # "" =>
              /\ outcome.kind = "error"
              /\ outcome.err = rewrite.err
              /\ outcome.path = DotPath
              /\ outcome.text = <<>>
        /\ outcome.kind = "write" =>
              rewrite.err = "" /\ outcome.text = rewrite.text

\* A save to a destination that can be written failed on a timestamp out of
\* range, in a document that has a timestamp before it.
C20_Witness ==
    /\ outcome.kind = "error"
    /\ outcome.err = "OverflowError"
    /\ CanWrite(output_path_for(outcome.arg))
    /\ Len(original_gpx.tracks) + Len(original_gpx.waypoints) >= 2

====
